---- MODULE Spec2Model ----
(***************************************************************************)
(* Addressing core of entwine: Structure (tier boundaries, chunk sizing,   *)
(* subset assignment) and ChunkInfo (forward address translation), from    *)
(* src/entwine/types/structure.cpp; and the locking of the shared stage    *)
(* factory by Executor, from src/entwine/util/executor.cpp.                *)
(*                                                                         *)
(* Id is an unsigned integer of unbounded magnitude; it is modelled by the *)
(* naturals.  std::size_t is 64 bits wide in the program; every value the  *)
(* model computes stays below 2^31, so no native operation wraps within    *)
(* the bounds and the width is not modelled.                               *)
(***************************************************************************)
EXTENDS Integers, Sequences, FiniteSets, TLC

VARIABLES
    structure,  \* << >> when no Structure exists, <<s>> for the Structure last constructed
    request,    \* arguments of the last constructor call (ctor names the entry point)
    error,      \* what() of the exception the last constructor call threw, "" if none
    result,     \* outcome of the last query or static helper call
    threads,       \* per calling thread: the Executor call it is in and its position
    factoryMutex,  \* the thread that holds Executor::m_factoryMutex, NoThread if free
    inFactory      \* the threads inside a call of the shared pdal::StageFactory

vars == <<structure, request, error, result, threads, factoryMutex, inFactory>>

execVars == <<threads, factoryMutex, inFactory>>

----------------------------------------------------------------------------
(* Bounds of the model *)

MaxNullDepth == 5
MaxBaseDepth == 4
MaxChunkNum == 1
MaxIndexSpan == 1
MaxIndex == 400
MaxLevel == 8
MaxVal == 130
MaxThreads == 2

(* Program constants *)

MinBaseDepth == 4

----------------------------------------------------------------------------
(* Outcomes of a call: a value, or an exception with its message *)

Ok(v) == [threw |-> FALSE, what |-> "", value |-> v]

Throw(msg) == [threw |-> TRUE, what |-> msg, value |-> 0]

Max(a, b) == IF a >= b THEN a ELSE b

(* Values an operation outside the arithmetic's domain may leave behind:   *)
(* std::log2(0) converted to std::size_t, an Id subtraction below zero, an *)
(* Id division by zero.                                                    *)
Unspecified == {0, 1}

----------------------------------------------------------------------------
(* Level / depth math *)

RECURSIVE FloorLog2(_)
FloorLog2(val) == IF val <= 1 THEN 0 ELSE 1 + FloorLog2(val \div 2)

(* log2(std::size_t): std::log2 in double precision, truncated to size_t.  *)
(* For 1 <= val < 2^31 the truncation is the exact floor of the binary     *)
(* logarithm (the nearest double to log2(val) never reaches the next       *)
(* integer below 2^49).  For val = 0 std::log2 is -inf and the conversion  *)
(* is undefined: u stands for whatever it leaves.                          *)
Log2(val, u) == IF val = 0 THEN u ELSE FloorLog2(val)

BinaryPow(baseLog2, exp) == 2 ^ (exp * baseLog2)

PointsAtDepth(dimensions, depth) == BinaryPow(dimensions, depth)

CalcLevelIndex(dimensions, depth) ==
    (BinaryPow(dimensions, depth) - 1) \div (2 ^ dimensions - 1)

CalcDepthNoPlusOne(factor, index) ==
    Log2(index * (factor - 1), 0) \div Log2(factor, 0)

CalcDepth(factor, index) ==
    Log2(index * (factor - 1) + 1, 0) \div Log2(factor, 0)

LogN(val, n, u) ==
    IF n /= 4 /\ n /= 8
    THEN Throw("Invalid logN arg")
    ELSE Ok(Log2(val, u) \div Log2(n, u))

IsPerfectLogNNoScale(val, n, u) ==
    LET l == LogN(val, n, u)
    IN  IF l.threw THEN l ELSE Ok(2 ^ l.value = val)

IsPerfectLogN(val, n, u) ==
    LET l == LogN(val, n, u)
    IN  IF l.threw THEN l ELSE Ok(2 ^ (l.value * Log2(n, u)) = val)

----------------------------------------------------------------------------
(* Structure: accessors *)

HasCold(s) == s.coldDepthEnd > s.baseDepthEnd

HasSparse(s) == s.sparseIndexBegin /= 0

Is3d(s) == s.dimensions = 3

IsSubset(s) == s.subset[2] /= 0

----------------------------------------------------------------------------
(* Structure: construction *)

Members(nullDepthEnd, baseDepthEnd, coldDepthEnd, in) ==
    [ nullDepthBegin |-> 0,
      nullDepthEnd |-> nullDepthEnd,
      baseDepthBegin |-> nullDepthEnd,
      baseDepthEnd |-> baseDepthEnd,
      coldDepthBegin |-> baseDepthEnd,
      coldDepthEnd |-> coldDepthEnd,
      sparseDepthBegin |-> 0,
      sparseIndexBegin |-> 0,
      chunkPoints |-> in.chunkPoints,
      dynamicChunks |-> in.dynamicChunks,
      dimensions |-> in.dimensions,
      factor |-> 2 ^ in.dimensions,
      numPointsHint |-> in.numPointsHint,
      subset |-> in.subset,
      nominalChunkDepth |-> 0,
      nominalChunkIndex |-> 0,
      nullIndexBegin |-> 0,
      nullIndexEnd |-> 0,
      baseIndexBegin |-> 0,
      baseIndexEnd |-> 0,
      coldIndexBegin |-> 0,
      coldIndexEnd |-> 0 ]

InitExplicitNoClamp(in) ==
    Members(in.nullDepth, in.baseDepth, in.coldDepth, in)

(* Structure(nullDepth, baseDepth, coldDepth, chunkPoints, ...) *)
InitExplicit(in) ==
    LET baseDepthEnd == Max(in.nullDepth, in.baseDepth)
    IN  Members(in.nullDepth, baseDepthEnd, Max(baseDepthEnd, in.coldDepth), in)

(* Structure(nullDepth, baseDepth, chunkPoints, ...): no cold depth given *)
InitNoCold(in) ==
    Members(in.nullDepth, Max(in.nullDepth, in.baseDepth), 0, in)

(* Structure(const Json::Value&) *)
InitJson(json) ==
    Members(json.nullDepth, json.baseDepth, json.coldDepth, json)

(* The subset validation at the end of loadIndexValues *)
CheckSubset(s, coldFirstSpan) ==
    LET splits == s.subset[2]
    IN  IF splits = 0 THEN Ok(s)
        ELSE IF s.nullDepthEnd = 0 \/ 4 ^ s.nullDepthEnd < splits
        THEN Throw("Invalid null depth for requested subset")
        ELSE IF ~(splits = 4 \/ splits = 16 \/ splits = 64)
        THEN Throw("Invalid subset split")
        ELSE IF s.subset[1] >= s.subset[2]
        THEN Throw("Invalid subset identifier")
        ELSE IF HasCold(s)
                /\ (  (coldFirstSpan \div s.chunkPoints) < splits
                   \/ (coldFirstSpan \div s.chunkPoints) % splits /= 0 )
        THEN Throw("Invalid chunk size for this subset")
        ELSE Ok(s)

(* The derived index values of loadIndexValues, once the chunk checks passed *)
DeriveIndexValues(m, nominalChunkDepth) ==
    LET log == Log2(m.numPointsHint, 0) \div Log2(m.factor, 0) + 1
        sparseDepthBegin ==
            IF m.numPointsHint /= 0 THEN Max(log, m.coldDepthBegin) ELSE m.sparseDepthBegin
        sparseIndexBegin ==
            IF m.numPointsHint /= 0
            THEN CalcLevelIndex(m.dimensions, sparseDepthBegin)
            ELSE m.sparseIndexBegin
    IN  [ m EXCEPT
            !.nominalChunkDepth = nominalChunkDepth,
            !.nominalChunkIndex = CalcLevelIndex(m.dimensions, nominalChunkDepth),
            !.nullIndexBegin = 0,
            !.nullIndexEnd = CalcLevelIndex(m.dimensions, m.nullDepthEnd),
            !.baseIndexBegin = CalcLevelIndex(m.dimensions, m.nullDepthEnd),
            !.baseIndexEnd = CalcLevelIndex(m.dimensions, m.baseDepthEnd),
            !.coldIndexBegin = CalcLevelIndex(m.dimensions, m.baseDepthEnd),
            !.coldIndexEnd =
                IF m.coldDepthEnd /= 0
                THEN CalcLevelIndex(m.dimensions, m.coldDepthEnd) ELSE 0,
            !.sparseDepthBegin = sparseDepthBegin,
            !.sparseIndexBegin = sparseIndexBegin ]

(* Structure::loadIndexValues on the members m set by a constructor's       *)
(* initializer list.  u is what log2(0) leaves when chunkPoints is 0 and no *)
(* cold tier exists.                                                        *)
LoadIndexValues(m, u) ==
    LET coldFirstSpan == PointsAtDepth(m.dimensions, m.coldDepthBegin)
        perfect == IsPerfectLogN(m.chunkPoints, m.dimensions, u)
        nominal == LogN(m.chunkPoints, m.factor, u)
    IN  IF m.baseDepthEnd < MinBaseDepth
        THEN Throw("Base depth too small")
        ELSE IF m.chunkPoints = 0 /\ HasCold(m)
        THEN Throw("Points per chunk not specified, but a cold depth was given.")
        ELSE IF HasCold(m) /\ perfect.threw
        THEN perfect
        ELSE IF HasCold(m) /\ ~perfect.value
        THEN Throw("Invalid chunk specification")
        ELSE IF nominal.threw
        THEN nominal
        ELSE CheckSubset(DeriveIndexValues(m, nominal.value), coldFirstSpan)

----------------------------------------------------------------------------
(* Id arithmetic outside its domain: a subtraction below zero and a        *)
(* division by zero raise no error and leave an unspecified value w.       *)

IdSub(a, b, w) == IF a >= b THEN a - b ELSE w

IdDivMod(a, b, w) == IF b /= 0 THEN <<a \div b, a % b>> ELSE <<w, w>>

----------------------------------------------------------------------------
(* ChunkInfo: forward address translation *)

FixedRegime(s, levelIndex) ==
    ~s.dynamicChunks \/ levelIndex <= s.sparseIndexBegin

ChunkInfoOf(s, index, w) ==
    LET depth == CalcDepth(s.factor, index)
        levelIndex == CalcLevelIndex(s.dimensions, depth)
        baseChunkPoints == s.chunkPoints
        sparseIndexBegin == s.sparseIndexBegin
        coldIndexBegin == s.coldIndexBegin
    IN  IF FixedRegime(s, levelIndex)
        THEN
            LET divMod == IdDivMod(IdSub(index, coldIndexBegin, w), baseChunkPoints, w)
            IN  [ index |-> index,
                  depth |-> depth,
                  chunkPoints |-> baseChunkPoints,
                  chunkNum |-> divMod[1],
                  chunkOffset |-> divMod[2],
                  chunkId |-> coldIndexBegin + divMod[1] * baseChunkPoints ]
        ELSE
            LET sparseFirstSpan == PointsAtDepth(s.dimensions, s.sparseDepthBegin)
                chunksPerSparseDepth == sparseFirstSpan \div baseChunkPoints
                sparseDepthCount == depth - s.sparseDepthBegin
                chunkPoints == baseChunkPoints * BinaryPow(s.dimensions, sparseDepthCount)
                coldIndexSpan == IdSub(sparseIndexBegin, coldIndexBegin, w)
                numColdChunks == IdDivMod(coldIndexSpan, baseChunkPoints, w)[1]
                prevLevelsChunkCount ==
                    numColdChunks + chunksPerSparseDepth * sparseDepthCount
                levelOffset == index - levelIndex
            IN  [ index |-> index,
                  depth |-> depth,
                  chunkPoints |-> chunkPoints,
                  chunkNum |-> prevLevelsChunkCount + levelOffset \div chunkPoints,
                  chunkOffset |-> levelOffset % chunkPoints,
                  chunkId |-> levelIndex + (levelOffset \div chunkPoints) * chunkPoints ]

----------------------------------------------------------------------------
(* Structure: chunk counting and inverse enumeration *)

NumChunksAtDepth(s, depth) ==
    IF ~HasSparse(s) \/ ~s.dynamicChunks \/ depth <= s.sparseDepthBegin
    THEN (CalcLevelIndex(s.dimensions, depth + 1) - CalcLevelIndex(s.dimensions, depth))
            \div s.chunkPoints
    ELSE PointsAtDepth(s.dimensions, s.sparseDepthBegin) \div s.chunkPoints

ChunkIdFromNum(s, chunkNum, w) ==
    IF ~HasCold(s) THEN 0
    ELSE IF HasSparse(s) /\ s.dynamicChunks
    THEN
        LET endFixed == CalcLevelIndex(s.dimensions, s.sparseDepthBegin + 1)
            fixedSpan == IdSub(endFixed, s.coldIndexBegin, w)
            fixedNum == IdDivMod(fixedSpan, s.chunkPoints, w)[1]
        IN  IF chunkNum < fixedNum
            THEN s.coldIndexBegin + chunkNum * s.chunkPoints
            ELSE
                LET leftover == chunkNum - fixedNum
                    chunksPerSparseDepth == NumChunksAtDepth(s, s.sparseDepthBegin)
                    split == IdDivMod(leftover, chunksPerSparseDepth, w)
                    depth == s.sparseDepthBegin + 1 + split[1]
                    chunkNumInDepth == split[2]
                    depthIndexBegin == CalcLevelIndex(s.dimensions, depth)
                    depthChunkSize ==
                        IdDivMod(PointsAtDepth(s.dimensions, depth),
                                 chunksPerSparseDepth, w)[1]
                IN  depthIndexBegin + chunkNumInDepth * depthChunkSize
    ELSE s.coldIndexBegin + chunkNum * s.chunkPoints

GetInfoFromNum(s, chunkNum, w) == ChunkInfoOf(s, ChunkIdFromNum(s, chunkNum, w), w)

----------------------------------------------------------------------------
(* Spatial subset: quadrant descent *)

(* Climber::Dir of a 2-bit code *)
DirOf(code) ==
    CASE code = 0 -> "swd"
      [] code = 1 -> "sed"
      [] code = 2 -> "nwd"
      [] code = 3 -> "ned"

(* Climber::goNwd / goNed / goSwd / goSed on the climber's bounding box *)
Go(bbox, dir) ==
    LET midX == (bbox.min[1] + bbox.max[1]) \div 2
        midY == (bbox.min[2] + bbox.max[2]) \div 2
    IN  CASE dir = "nwd" -> [min |-> <<bbox.min[1], midY>>, max |-> <<midX, bbox.max[2]>>]
          [] dir = "ned" -> [min |-> <<midX, midY>>, max |-> bbox.max]
          [] dir = "swd" -> [min |-> bbox.min, max |-> <<midX, midY>>]
          [] OTHER       -> [min |-> <<midX, bbox.min[2]>>, max |-> <<bbox.max[1], midY>>]

SubsetDirOneBit(id, i) == DirOf((id \div 2 ^ i) % 4)

(* static_cast<Climber::Dir>(m_subset.first >> (i * 2) & 0x03) *)
SubsetDir(id, i) == DirOf((id \div 2 ^ (i * 2)) % 4)

RECURSIVE Descend(_, _, _, _)
Descend(bbox, id, i, times) ==
    IF i >= times THEN bbox
    ELSE Descend(Go(bbox, SubsetDir(id, i)), id, i + 1, times)

SubsetTimes(splits) ==
    IF splits = 4 THEN Ok(1)
    ELSE IF splits = 16 THEN Ok(2)
    ELSE IF splits = 64 THEN Ok(3)
    ELSE Throw("Invalid subset split")

SubsetBBoxNo3dCheck(s, full) ==
    LET times == SubsetTimes(s.subset[2])
    IN  IF times.threw THEN times
        ELSE Ok(Descend(full, s.subset[1], 0, times.value))

SubsetBBox(s, full) ==
    LET times == SubsetTimes(s.subset[2])
    IN  IF Is3d(s) THEN Throw("Can't currently split octree")
        ELSE IF times.threw THEN times
        ELSE IF times.value /= 0
        THEN Ok(Descend(full, s.subset[1], 0, times.value))
        ELSE Throw("Invalid magnification subset")

----------------------------------------------------------------------------
(* Inputs *)

Dimensions == {2, 3}

NullDepths == 0..MaxNullDepth

BaseDepths == (MinBaseDepth - 1)..MaxBaseDepth

ColdDepths == {0} \cup ((MinBaseDepth - 1)..(MaxBaseDepth + 1))

ChunkPointValues == {0, 1, 4, 8, 64, 100}

PointHints == {0, 300}

SubsetSplits == {4, 16, 64}

AllSubsets ==
    {<<0, 0>>, <<0, 7>>, <<4, 4>>}
        \cup UNION {{<<id, splits>> : id \in 0..(splits - 1)} : splits \in SubsetSplits}

(* Constructor arguments: every depth / chunk / hint combination with a few *)
(* subsets, and every subset with a few depth combinations.                 *)
Inputs ==
    [ nullDepth : NullDepths, baseDepth : BaseDepths, coldDepth : ColdDepths,
      chunkPoints : ChunkPointValues, dimensions : Dimensions,
      numPointsHint : PointHints, dynamicChunks : BOOLEAN,
      subset : {<<0, 0>>} ]
    \cup
    [ nullDepth : NullDepths, baseDepth : {MinBaseDepth},
      coldDepth : {0, MinBaseDepth + 1},
      chunkPoints : {4}, dimensions : Dimensions,
      numPointsHint : {0}, dynamicChunks : {FALSE},
      subset : AllSubsets ]

FullBoxes ==
    { [min |-> <<0, 0>>, max |-> <<8, 8>>],
      [min |-> <<8, 0>>, max |-> <<24, 32>>] }

(* Node indices handed to ChunkInfo: the first ones of the first two cold  *)
(* levels and the last one of the second.                                  *)
ColdIndices(s) ==
    LET next == CalcLevelIndex(s.dimensions, s.coldDepthBegin + 1)
    IN  {s.coldIndexBegin + j : j \in 0..MaxIndexSpan}
            \cup {next + j : j \in 0..MaxIndexSpan}
            \cup {CalcLevelIndex(s.dimensions, s.coldDepthBegin + 2) - 1}

DepthIndices ==
    (0..MaxIndex)
        \cup UNION { { CalcLevelIndex(d, l), CalcLevelIndex(d, l + 1) - 1 } :
                        d \in Dimensions, l \in 0..MaxLevel }

NoResult == [op |-> "none"]

NoRequest == [ctor |-> "none"]

(* Threads that call into one Executor *)
Threads == 1..MaxThreads

NoThread == 0

IdleThread ==
    [ op |-> "none", reprojection |-> FALSE, section |-> "none", step |-> "idle",
      driver |-> "", stage |-> "" ]

----------------------------------------------------------------------------
(* State machine *)

Init ==
    /\ structure = << >>
    /\ request = NoRequest
    /\ error = ""
    /\ result = NoResult
    /\ threads = [t \in Threads |-> IdleThread]
    /\ factoryMutex = NoThread
    /\ inFactory = {}

(* A constructor: the initializer list gave members m, then loadIndexValues *)
(* runs.                                                                    *)
Construct(ctor, in, m) ==
    \E u \in Unspecified :
        LET r == LoadIndexValues(m, u)
        IN  /\ request' = [ctor |-> ctor, args |-> in]
            /\ structure' = IF r.threw THEN << >> ELSE <<r.value>>
            /\ error' = r.what
            /\ result' = NoResult
            /\ UNCHANGED execVars

(* A Structure is built once and is immutable afterwards: the constructors *)
(* act on the state in which none was requested yet.                       *)
ConstructExplicit ==
    /\ request = NoRequest
    /\ \E in \in Inputs : Construct("explicit", in, InitExplicit(in))

ConstructNoCold ==
    /\ request = NoRequest
    /\ \E in \in {i \in Inputs : i.coldDepth = 0} :
          Construct("noCold", in, InitNoCold(in))

ConstructJson ==
    /\ request = NoRequest
    /\ \E json \in Inputs : Construct("json", json, InitJson(json))

(* ChunkInfo(structure, index) for a node index of the chunked tiers *)
NewChunkInfo ==
    /\ Len(structure) = 1
    /\ structure[1].chunkPoints /= 0
    /\ \E index \in ColdIndices(structure[1]), w \in Unspecified :
          result' = [ op |-> "ChunkInfo", arg |-> index, threw |-> FALSE,
                      info |-> ChunkInfoOf(structure[1], index, w) ]
    /\ UNCHANGED <<structure, request, error>>
    /\ UNCHANGED execVars

CallGetInfoFromNum ==
    /\ Len(structure) = 1
    /\ \E chunkNum \in 0..MaxChunkNum, w \in Unspecified :
          result' = [ op |-> "getInfoFromNum", arg |-> chunkNum, threw |-> FALSE,
                      info |-> GetInfoFromNum(structure[1], chunkNum, w) ]
    /\ UNCHANGED <<structure, request, error>>
    /\ UNCHANGED execVars

CallSubsetBBox ==
    /\ Len(structure) = 1
    /\ \E full \in FullBoxes :
          LET r == SubsetBBox(structure[1], full)
          IN  result' = [ op |-> "subsetBBox", arg |-> full, threw |-> r.threw,
                          what |-> r.what, value |-> r.value ]
    /\ UNCHANGED <<structure, request, error>>
    /\ UNCHANGED execVars

Next ==
    \/ ConstructExplicit
    \/ ConstructNoCold
    \/ ConstructJson
    \/ NewChunkInfo
    \/ CallGetInfoFromNum
    \/ CallSubsetBBox

Spec == Init /\ [][Next]_vars

----------------------------------------------------------------------------
(* The static helpers of ChunkInfo, each applied once to arguments drawn  *)
(* from bounded sets.                                                     *)

CallCalcDepth ==
    /\ result = NoResult
    /\ \E dimensions \in Dimensions, index \in DepthIndices :
          result' = [ op |-> "calcDepth", dimensions |-> dimensions, index |-> index,
                      value |-> CalcDepth(2 ^ dimensions, index) ]
    /\ UNCHANGED <<structure, request, error>>
    /\ UNCHANGED execVars

CallLogN ==
    /\ result = NoResult
    /\ \E val \in 0..MaxVal, n \in {2, 3, 4, 8}, u \in Unspecified :
          LET r == LogN(val, n, u)
          IN  result' = [ op |-> "logN", val |-> val, n |-> n, threw |-> r.threw,
                          what |-> r.what, value |-> r.value ]
    /\ UNCHANGED <<structure, request, error>>
    /\ UNCHANGED execVars

CallIsPerfectLogN ==
    /\ result = NoResult
    /\ \E val \in 0..MaxVal, n \in {2, 3, 4, 8}, u \in Unspecified :
          LET r == IsPerfectLogN(val, n, u)
          IN  result' = [ op |-> "isPerfectLogN", val |-> val, n |-> n,
                          threw |-> r.threw, what |-> r.what, value |-> r.value ]
    /\ UNCHANGED <<structure, request, error>>
    /\ UNCHANGED execVars

NextMath ==
    \/ CallCalcDepth
    \/ CallLogN
    \/ CallIsPerfectLogN

SpecMath == Init /\ [][NextMath]_vars

----------------------------------------------------------------------------
(* Executor: threads calling run, good and preview on one Executor.  Every *)
(* use of m_stageFactory is a section: getLock, the factory call, unlock.  *)
(* The sections are "infer" (inferReaderDriver), "reader" (createStage in  *)
(* createReader) and "filter" (createStage in createReprojectionFilter).   *)

StructUnchanged == UNCHANGED <<structure, request, error, result>>

(* A null stage was dereferenced: the process is gone *)
Crashed == \E t \in Threads : threads[t].step = "crashed"

(* Where a call goes once the section's lock is released.  srsIn is the    *)
(* input SRS srsFoundOrDefault yields ("" if none was found or given),     *)
(* quickValid is QuickInfo::valid() of the reader's preview.  A null stage *)
(* is dereferenced right after the unlock, which is undefined: with u = 0  *)
(* the process dies there, with u = 1 the call runs on.                    *)
AfterUnlock(th, srsIn, quickValid, u) ==
    CASE th.section = "infer" ->
            IF th.op = "good" \/ th.driver = ""
            THEN IdleThread
            ELSE [th EXCEPT !.section = "reader", !.step = "lock"]
      [] th.section = "reader" ->
            IF th.stage = "null" /\ u = 0
            THEN [IdleThread EXCEPT !.step = "crashed"]
            ELSE IF th.op = "preview" /\ ~quickValid THEN IdleThread
            ELSE IF ~th.reprojection THEN IdleThread
            ELSE IF srsIn = "" THEN IdleThread
            ELSE [th EXCEPT !.section = "filter", !.step = "lock", !.stage = ""]
      [] th.section = "filter" ->
            IF th.stage = "null" /\ u = 0
            THEN [IdleThread EXCEPT !.step = "crashed"]
            ELSE IdleThread

(* A thread enters Executor::run, good or preview *)
Call(t) ==
    /\ ~Crashed
    /\ threads[t].step = "idle"
    /\ \E op \in {"run", "good", "preview"}, reprojection \in BOOLEAN :
          /\ op = "good" => ~reprojection
          /\ threads' = [threads EXCEPT ![t] =
                [ IdleThread EXCEPT !.op = op, !.reprojection = reprojection,
                                    !.section = "infer", !.step = "lock" ]]
    /\ UNCHANGED <<factoryMutex, inFactory>>
    /\ StructUnchanged

GetLockNoWait(t) ==
    /\ ~Crashed
    /\ threads[t].step = "lock"
    /\ factoryMutex' = t
    /\ threads' = [threads EXCEPT ![t].step = "enter"]
    /\ UNCHANGED inFactory
    /\ StructUnchanged

(* auto lock(getLock()): blocks until the mutex is free *)
GetLock(t) ==
    /\ ~Crashed
    /\ threads[t].step = "lock"
    /\ factoryMutex = NoThread
    /\ factoryMutex' = t
    /\ threads' = [threads EXCEPT ![t].step = "enter"]
    /\ UNCHANGED inFactory
    /\ StructUnchanged

(* m_stageFactory->inferReaderDriver(...) / createStage(...) is entered *)
EnterFactory(t) ==
    /\ ~Crashed
    /\ threads[t].step = "enter"
    /\ inFactory' = inFactory \cup {t}
    /\ threads' = [threads EXCEPT ![t].step = "exit"]
    /\ UNCHANGED factoryMutex
    /\ StructUnchanged

(* ... and returns: a driver name (empty if none fits), or a stage (null   *)
(* if the factory has none of that name)                                    *)
LeaveFactory(t) ==
    /\ ~Crashed
    /\ threads[t].step = "exit"
    /\ inFactory' = inFactory \ {t}
    /\ \/ /\ threads[t].section = "infer"
          /\ \E driver \in {"", "readers.las"} :
                threads' = [threads EXCEPT ![t].step = "unlock", ![t].driver = driver]
       \/ /\ threads[t].section /= "infer"
          /\ \E stage \in {"stage", "null"} :
                threads' = [threads EXCEPT ![t].step = "unlock", ![t].stage = stage]
    /\ UNCHANGED factoryMutex
    /\ StructUnchanged

(* lock.unlock(), or the lock's destructor when good returns; then the     *)
(* call runs on to its next section or to its end                          *)
Unlock(t) ==
    /\ ~Crashed
    /\ threads[t].step = "unlock"
    /\ factoryMutex' = NoThread
    /\ \E srsIn \in {"", "EPSG:26915"}, quickValid \in BOOLEAN, u \in Unspecified :
          threads' = [threads EXCEPT ![t] =
                AfterUnlock(threads[t], srsIn, quickValid, u)]
    /\ UNCHANGED inFactory
    /\ StructUnchanged

NextExec ==
    \E t \in Threads :
        \/ Call(t)
        \/ GetLock(t)
        \/ EnterFactory(t)
        \/ LeaveFactory(t)
        \/ Unlock(t)

SpecExec == Init /\ [][NextExec]_vars

----------------------------------------------------------------------------
(* Vocabulary of the properties *)

Built == Len(structure) = 1

Requested == request.ctor /= "none"

(* The members the requested constructor's initializer list sets *)
RequestedMembers ==
    CASE request.ctor = "explicit" -> InitExplicit(request.args)
      [] request.ctor = "noCold" -> InitNoCold(request.args)
      [] request.ctor = "json" -> InitJson(request.args)

IsPowerOf(v, f) == \E k \in 0..10 : f ^ k = v

(* A request for a Structure with a cold tier, a base tier of at least four *)
(* levels, a chunk capacity that is a positive power of F, and no subset    *)
ColdRequest ==
    /\ Requested
    /\ RequestedMembers.baseDepthEnd >= MinBaseDepth
    /\ HasCold(RequestedMembers)
    /\ IsPowerOf(request.args.chunkPoints, 2 ^ request.args.dimensions)
    /\ request.args.subset[2] = 0

Area(b) == (b.max[1] - b.min[1]) * (b.max[2] - b.min[2])

Within(b, full) ==
    /\ full.min[1] <= b.min[1] /\ b.max[1] <= full.max[1]
    /\ full.min[2] <= b.min[2] /\ b.max[2] <= full.max[2]

Disjoint(a, b) ==
    \/ a.max[1] <= b.min[1] \/ b.max[1] <= a.min[1]
    \/ a.max[2] <= b.min[2] \/ b.max[2] <= a.min[2]

----------------------------------------------------------------------------
(* C1: for every Structure with a cold tier (baseDepthEnd >= 4, chunk       *)
(* capacity a positive power of F, any dynamicChunks flag, any hint) and    *)
(* every chunk sequence number n, getInfoFromNum(n).chunkNum() = n.         *)
C1_RoundTrip ==
    ColdRequest =>
        /\ Built
        /\ result.op = "getInfoFromNum" =>
              ~result.threw /\ result.info.chunkNum = result.arg

(* C2: with dimensions in {2,3}, baseDepthEnd >= 4, a cold tier and no      *)
(* subset, construction fails if and only if the chunk capacity is zero or  *)
(* is not an exact power of F = 2^dimensions.                               *)
C2_ConstructionIff ==
    ( /\ Requested
      /\ request.args.dimensions \in {2, 3}
      /\ RequestedMembers.baseDepthEnd >= MinBaseDepth
      /\ HasCold(RequestedMembers)
      /\ request.args.subset[2] = 0 )
    => ( ~Built <=>
            \/ request.args.chunkPoints = 0
            \/ ~IsPowerOf(request.args.chunkPoints, 2 ^ request.args.dimensions) )

(* C3: calcDepth(F, i) is the unique depth d with                           *)
(* calcLevelIndex(d) <= i < calcLevelIndex(d + 1).                          *)
C3_DepthOf ==
    result.op = "calcDepth" =>
        /\ CalcLevelIndex(result.dimensions, result.value) <= result.index
        /\ result.index < CalcLevelIndex(result.dimensions, result.value + 1)
        /\ \A d \in 0..MaxLevel :
              ( /\ CalcLevelIndex(result.dimensions, d) <= result.index
                /\ result.index < CalcLevelIndex(result.dimensions, d + 1) )
              => d = result.value

(* calcDepth was applied to the last index of level 4 of an octree *)
C3_Witness ==
    /\ result.op = "calcDepth"
    /\ result.dimensions = 3
    /\ result.index = CalcLevelIndex(3, 5) - 1
    /\ result.value = 4

(* C4: for a Structure with a cold tier built with numPointsHint = 0, for   *)
(* either dynamicChunks flag, every ChunkInfo of an index i >=              *)
(* coldIndexBegin is addressed in the fixed regime: capacity                *)
(* baseChunkPoints, chunkNum = (i - coldIndexBegin) div baseChunkPoints,    *)
(* chunkId = coldIndexBegin + chunkNum * baseChunkPoints.                   *)
C4_NoHintFixedRegime ==
    (ColdRequest /\ request.args.numPointsHint = 0) =>
        /\ Built
        /\ result.op = "ChunkInfo" =>
              LET s == structure[1]
                  num == (result.arg - s.coldIndexBegin) \div s.chunkPoints
              IN  /\ result.info.chunkPoints = s.chunkPoints
                  /\ result.info.chunkNum = num
                  /\ result.info.chunkId = s.coldIndexBegin + num * s.chunkPoints

(* C5: getInfoFromNum(n) on a Structure for which hasCold() is false fails  *)
(* with an error and returns no ChunkInfo.                                  *)
C5_RejectedWithoutCold ==
    (Built /\ result.op = "getInfoFromNum" /\ ~HasCold(structure[1]))
        => result.threw

C7_OctreeSubsetRejectedAtConstruction ==
    (Requested /\ request.args.dimensions = 3 /\ request.args.subset[2] /= 0)
        => ~Built

(* C7 as amended: a subset on an octree is rejected when its region is      *)
(* computed: subsetBBox fails on every constructed Structure with           *)
(* dimensions = 3 and a subset.                                             *)
C7_OctreeSubsetRejectedAtSubsetBBox ==
    (Built /\ Is3d(structure[1]) /\ IsSubset(structure[1]) /\ result.op = "subsetBBox")
        => result.threw /\ result.what = "Can't currently split octree"

(* subsetBBox was called on a constructed octree Structure with a subset *)
C7_Witness ==
    /\ Built
    /\ Is3d(structure[1])
    /\ structure[1].subset = <<5, 16>>
    /\ result.op = "subsetBBox"
    /\ result.threw

(* C8: for a 2-D Structure and splits = 4^t, t in {1,2,3}, the region       *)
(* subsetBBox returns for an id is a cell of the 2^t x 2^t grid over the    *)
(* full region and is disjoint from the region of every other id in         *)
(* 0 .. splits-1; splits disjoint cells of area 1/splits cover the grid.    *)
C8_SubsetsPartition ==
    (Built /\ ~Is3d(structure[1]) /\ IsSubset(structure[1]) /\ result.op = "subsetBBox")
        => /\ ~result.threw
           /\ LET s == structure[1]
                  full == result.arg
                  cell == result.value
                  splits == s.subset[2]
                  side == 2 ^ SubsetTimes(splits).value
                  w == (full.max[1] - full.min[1]) \div side
                  h == (full.max[2] - full.min[2]) \div side
              IN  /\ Within(cell, full)
                  /\ cell.max[1] - cell.min[1] = w
                  /\ cell.max[2] - cell.min[2] = h
                  /\ (cell.min[1] - full.min[1]) % w = 0
                  /\ (cell.min[2] - full.min[2]) % h = 0
                  /\ Area(cell) * splits = Area(full)
                  /\ \A id \in 0..(splits - 1) :
                        id /= s.subset[1] =>
                            Disjoint(cell,
                                SubsetBBox([s EXCEPT !.subset = <<id, splits>>], full).value)

(* subsetBBox returned the region of id 27 of 64 *)
C8_Witness ==
    /\ Built
    /\ ~Is3d(structure[1])
    /\ structure[1].subset = <<27, 64>>
    /\ result.op = "subsetBBox"
    /\ ~result.threw
    /\ result.value = [min |-> <<5, 6>>, max |-> <<6, 7>>]

(* C9: for every Structure with a cold tier and every node index i >=       *)
(* coldIndexBegin, the ChunkInfo built for i has chunkOffset < chunkPoints. *)
C9_OffsetBounded ==
    ColdRequest =>
        /\ Built
        /\ result.op = "ChunkInfo" =>
              result.info.chunkOffset < result.info.chunkPoints

(* C10 as stated: isPerfectLogN is true for (64, 4), false for (64, 8) and  *)
(* false for (100, 4).                                                      *)
C10_PerfectPowerValues ==
    result.op = "isPerfectLogN" =>
        /\ (result.val = 64 /\ result.n = 4) => (~result.threw /\ result.value = TRUE)
        /\ (result.val = 64 /\ result.n = 8) => (~result.threw /\ result.value = FALSE)
        /\ (result.val = 100 /\ result.n = 4) => (~result.threw /\ result.value = FALSE)

(* C10 as amended: isPerfectLogN is true for (64, 4), true for (64, 8)      *)
(* (64 = 8^2) and false for (100, 4).                                       *)
C10_PerfectPowerValuesOfCode ==
    result.op = "isPerfectLogN" =>
        /\ (result.val = 64 /\ result.n = 4) => (~result.threw /\ result.value = TRUE)
        /\ (result.val = 64 /\ result.n = 8) => (~result.threw /\ result.value = TRUE)
        /\ (result.val = 100 /\ result.n = 4) => (~result.threw /\ result.value = FALSE)

(* isPerfectLogN was applied to (64, 8) and returned true *)
C10_Witness ==
    /\ result.op = "isPerfectLogN"
    /\ result.val = 64
    /\ result.n = 8
    /\ ~result.threw
    /\ result.value = TRUE

(* C11: for every Structure with a cold tier and a chunk capacity that is a *)
(* power of F, two node indices i, j >= coldIndexBegin have the same        *)
(* chunkNum if and only if they have the same chunkId.                      *)
C11_ChunkNumIdentifiesChunk ==
    ColdRequest =>
        /\ Built
        /\ result.op = "ChunkInfo" =>
              \A j \in ColdIndices(structure[1]), w \in Unspecified :
                  LET other == ChunkInfoOf(structure[1], j, w)
                  IN  (other.chunkNum = result.info.chunkNum)
                          <=> (other.chunkId = result.info.chunkId)

(* C12: every call into the shared stage factory is made by a thread that  *)
(* holds the factory mutex, at most one thread is inside the factory, and   *)
(* no thread asks for the mutex while it holds it.                          *)
C12_FactoryMutualExclusion ==
    /\ \A t \in inFactory : factoryMutex = t
    /\ Cardinality(inFactory) <= 1
    /\ \A t \in Threads : threads[t].step = "lock" => factoryMutex /= t

(* One thread is inside createStage for its reader while another thread,    *)
(* in preview, waits for the mutex to create its reprojection filter        *)
C12_Witness ==
    \E t \in Threads, u \in Threads :
        /\ t /= u
        /\ t \in inFactory
        /\ threads[t].section = "reader"
        /\ threads[u].op = "preview"
        /\ threads[u].section = "filter"
        /\ threads[u].step = "lock"

====
